---- MODULE Spec2Model ----
(***************************************************************************)
(* Model of backend/src/schema.rs: the trainer registry                    *)
(* (trainers_scores), the pending pool of the current round                *)
(* (pending_transactions), the model store (models) and the latest-version *)
(* pointer (latest_version_addr), with the three schema operations         *)
(* register_trainer, check_pending and update_weights.                     *)
(*                                                                         *)
(* Numbers.  Floating-point values are modelled as exact rationals.  A     *)
(* trainer score is the fraction 1/n; once parsed it is held as an integer *)
(* count of units of 1/Scale, where Scale is the least common multiple of  *)
(* 1..NumAddr, so that every 1/n the registry can hold is a whole number   *)
(* of units.  Model weights are held in the same units.  Rounding of f32   *)
(* and f64 arithmetic is not modelled.                                     *)
(***************************************************************************)
EXTENDS Integers, Sequences, FiniteSets, TLC

VARIABLES
    trainers_scores,       \* MapIndex<Address, String>: address -> score text
    pending_transactions,  \* MapIndex<Address, Vec<u8>>: address -> delta bytes
    models,                \* RawProofMapIndex<Address, Model>: key -> Model
    latest_version_addr,   \* Entry<Address>: key of the latest model, or None
    result,                \* the last call: operation, value returned, path taken
    owes,                  \* callers told that quorum is reached, yet to commit
    accepted,              \* callers' history: accepted deltas not yet aggregated
    stray,                 \* callers' history: entries left by a submit that panicked
    dup_agg,               \* callers' history: a delta was aggregated a second time
    probe                  \* key derivation: two versions and the keys derived so far

vars == <<trainers_scores, pending_transactions, models, latest_version_addr,
          result, owes, accepted, stray, dup_agg, probe>>

-----------------------------------------------------------------------------
(* Bounds of the model *)

\* number of distinct trainer addresses
NumAddr == 3

\* update_weights is not called once the latest model has this version
MaxVersion == 2

\* keys are derived for the versions 0 .. MaxKeyVersion - 1
MaxKeyVersion == 260

(* Configuration of the crate (lib.rs): values of the specification's examples *)

\* length of the weight vector
MODEL_SIZE == 2

\* weight of every coordinate of the genesis model
INIT_WEIGHT == 0

-----------------------------------------------------------------------------
(* Arithmetic helpers *)

Max(a, b) == IF a >= b THEN a ELSE b

RECURSIVE Gcd(_, _)
Gcd(a, b) == IF b = 0 THEN a ELSE Gcd(b, a % b)

RECURSIVE LcmUpTo(_)
LcmUpTo(n) == IF n <= 1 THEN 1 ELSE LET l == LcmUpTo(n - 1) IN (l * n) \div Gcd(l, n)

\* one unit of weight is 1/Scale
Scale == LcmUpTo(Max(NumAddr, 2))

\* quorum threshold 0.5, in units of 1/Scale
MAJORITY_RATIO == Scale \div 2

Addr == 1..NumAddr

\* Option: None, or Some(x) holding x
None == <<>>

Some(x) == <<x>>

unwrap(opt) == opt[1]

EmptyMap == [x \in {} |-> 0]

\* MapIndex::put / RawProofMapIndex::put: insert or overwrite
Put(m, k, v) == [x \in (DOMAIN m) \cup {k} |-> IF x = k THEN v ELSE m[x]]

\* the keys of a map in iteration (ascending key) order
RECURSIVE KeysInOrder(_)
KeysInOrder(S) ==
    IF S = {} THEN <<>>
    ELSE LET m == CHOOSE x \in S : \A y \in S : x <= y
         IN <<m>> \o KeysInOrder(S \ {m})

-----------------------------------------------------------------------------
(* SchemaUtils *)

\* mutant: only the low-order byte of the version is written
to_low_byte(version) == << 0, 0, 0, version % 256 >>

\* u32::to_be_bytes
to_be_bytes(version) ==
    << (version \div 16777216) % 256, (version \div 65536) % 256,
       (version \div 256) % 256, version % 256 >>

\* SchemaUtils::pubkey_from_version: 32 zero bytes, the first four overwritten
\* with the big-endian bytes of the version
pubkey_from_version(version) ==
    [i \in 1..32 |-> IF i <= 4 THEN to_be_bytes(version)[i] ELSE 0]

\* Address::from_key, the host's derivation function, taken as collision-free
from_key(key) == <<"Address", key>>

\* the f32 values a delta coordinate takes in the model
F32Vals == {-1, 1}

\* the four bytes of an f32 in memory (little-endian host)
F32Bytes(x) ==
    CASE x = 1  -> <<0, 0, 128, 63>>
      [] x = -1 -> <<0, 0, 128, 191>>
      [] OTHER  -> <<0, 0, 0, 0>>

\* the f32 whose four bytes in memory are b
F32FromBytes(b) ==
    IF b = <<0, 0, 128, 63>> THEN 1
    ELSE IF b = <<0, 0, 128, 191>> THEN -1
    ELSE 0

\* SchemaUtils::float_vec_to_byte_slice: MODEL_SIZE * 4 bytes read from the
\* start of the vector's buffer, whatever the vector's length.  A longer vector
\* is cut; for a shorter one the read runs past the buffer, and oob stands for
\* the floats the memory behind it happens to hold.
float_vec_to_byte_slice(floats, oob) ==
    [k \in 1..(MODEL_SIZE * 4) |->
        LET i == ((k - 1) \div 4) + 1
            j == ((k - 1) % 4) + 1
        IN F32Bytes(IF i <= Len(floats) THEN floats[i] ELSE oob[i])[j]]

\* SchemaUtils::byte_slice_to_float_vec: MODEL_SIZE floats read from the bytes
byte_slice_to_float_vec(bytes) ==
    [i \in 1..MODEL_SIZE |-> F32FromBytes(SubSeq(bytes, 4 * i - 3, 4 * i))]

-----------------------------------------------------------------------------
(* Model (model.rs) *)

\* Model::new
Model_new(version, size, weights) ==
    [version |-> version, size |-> size, weights |-> weights]

\* Model::aggregate: weights[i] += updates[i] * trainer_weight
aggregate(model, updates, tw) ==
    [model EXCEPT !.weights =
        [i \in DOMAIN model.weights |-> model.weights[i] + updates[i] * tw]]

-----------------------------------------------------------------------------
(* Trainer scores *)

\* 1.0 / num_of_trainers, an f64
starter_score(num_of_trainers) == [num |-> 1, den |-> num_of_trainers]

\* f64::to_string: the decimal text of the score
to_string(score) == <<"f64", score.num, score.den>>

\* str::parse::<f32>: the value of the decimal text, in units of 1/Scale
parse_f32(text) == (text[2] * Scale) \div text[3]

-----------------------------------------------------------------------------
(* SchemaImpl::register_trainer *)

\* mutant: the address is taken as new whether registered or not
never_registered(scores, trainer_addr) == FALSE

\* trainers_scores.contains(trainer_addr)
is_registered(scores, trainer_addr) == trainer_addr \in DOMAIN scores

\* mutant: the existing scores are left as they are
rescore_none(scores, score) == scores

\* the existing addresses are collected, the map is cleared and each address
\* is put back with the new score
rescore_existing(scores, score) == [a \in DOMAIN scores |-> to_string(score)]

register_trainer(scores, trainer_addr) ==
    LET num_of_trainers == Cardinality(DOMAIN scores) + 1
        score == starter_score(num_of_trainers)
    IN IF is_registered(scores, trainer_addr) = FALSE
       THEN Put(rescore_existing(scores, score), trainer_addr, to_string(score))
       ELSE scores

-----------------------------------------------------------------------------
(* SchemaImpl::check_pending *)

\* mutant: the pending entry is not looked for, the new delta overwrites it
never_pending(pending, trainer_addr) == FALSE

\* pending_transactions.contains(trainer_addr)
is_pending(pending, trainer_addr) == trainer_addr \in DOMAIN pending

\* trainers_scores.get(addr).unwrap() panics for an address with no score
lookup_fails(keys, scores) == \E a \in keys : a \notin DOMAIN scores

\* the loop over pending_transactions.keys(): ratio += score of the contributor
RECURSIVE sum_scores(_, _, _)
sum_scores(keys, scores, ratio) ==
    IF keys = <<>> THEN ratio
    ELSE sum_scores(Tail(keys), scores, ratio + parse_f32(scores[Head(keys)]))

\* mutant: the threshold itself does not count as reached
majority_exceeded(ratio) == ratio > MAJORITY_RATIO

\* ratio >= MAJORITY_RATIO
majority_reached(ratio) == ratio >= MAJORITY_RATIO

\* the value returned and the pool left behind; "panic" when an unwrap fails
check_pending(pending, scores, trainer_addr, bytes) ==
    IF is_pending(pending, trainer_addr)
    THEN [ret |-> "false", pending |-> pending, branch |-> "duplicate"]
    ELSE LET inserted == Put(pending, trainer_addr, bytes)
         IN IF lookup_fails(DOMAIN inserted, scores)
            THEN [ret |-> "panic", pending |-> inserted, branch |-> "panic"]
            ELSE LET ratio == sum_scores(KeysInOrder(DOMAIN inserted), scores, 0)
                 IN IF majority_reached(ratio)
                    THEN [ret |-> "true", pending |-> inserted, branch |-> "quorum"]
                    ELSE [ret |-> "false", pending |-> inserted, branch |-> "below"]

-----------------------------------------------------------------------------
(* SchemaImpl::update_weights *)

\* mutant: the genesis model is put and made the latest on every call
genesis_always(store, latest) ==
    LET version_hash == from_key(pubkey_from_version(0))
    IN [models |-> Put(store, version_hash,
                       Model_new(0, MODEL_SIZE,
                                 [i \in 1..MODEL_SIZE |-> INIT_WEIGHT * Scale])),
        latest |-> Some(version_hash)]

\* the model store and the pointer after the first block: a genesis model is
\* put and made the latest when the store holds no model
with_genesis(store, latest) ==
    IF Cardinality(DOMAIN store) = 0
    THEN LET version_hash == from_key(pubkey_from_version(0))
             latest_model == Model_new(0, MODEL_SIZE,
                                 [i \in 1..MODEL_SIZE |-> INIT_WEIGHT * Scale])
         IN [models |-> Put(store, version_hash, latest_model),
             latest |-> Some(version_hash)]
    ELSE [models |-> store, latest |-> latest]

\* mutant: a version number is skipped
next_version_skip(version) == version + 2

\* latest_model.version + 1, a u32; versions stay far below u32::MAX within
\* MaxVersion, so the addition never overflows here
next_version(version) == version + 1

\* mutant: every delta is aggregated with weight 1
unit_weight(scores, trainer_addr) == Scale

\* the trainer's score, parsed as f32
trainer_weight(scores, trainer_addr) == parse_f32(scores[trainer_addr])

\* the loop over pending_transactions.iter(): each entry is decoded and
\* aggregated into new_model with the trainer's score
RECURSIVE aggregate_pending(_, _, _, _)
aggregate_pending(keys, pending, scores, new_model) ==
    IF keys = <<>> THEN new_model
    ELSE LET trainer_addr == Head(keys)
             updates == byte_slice_to_float_vec(pending[trainer_addr])
             tw_f32 == trainer_weight(scores, trainer_addr)
         IN aggregate_pending(Tail(keys), pending, scores,
                              aggregate(new_model, updates, tw_f32))

\* pending_transactions.clear()
cleared(pending) == EmptyMap

\* mutant: the store keeps the new model only
publish_only(store, new_version_hash, new_model) ==
    Put(EmptyMap, new_version_hash, new_model)

\* mutant: the new model is not put
publish_skip(store, new_version_hash, new_model) == store

\* schema.models.put(&new_version_hash, new_model)
publish(store, new_version_hash, new_model) ==
    Put(store, new_version_hash, new_model)

\* the store, pointer and pool left behind; "panic" when an unwrap fails
update_weights(store, latest, pending, scores) ==
    LET g == with_genesis(store, latest)
    IN IF g.latest = None \/ unwrap(g.latest) \notin DOMAIN g.models
       THEN [ret |-> "panic", models |-> g.models, latest |-> g.latest,
             pending |-> pending]
       ELSE LET latest_model == g.models[unwrap(g.latest)]
                new_model == Model_new(next_version(latest_model.version),
                                       latest_model.size, latest_model.weights)
            IN IF lookup_fails(DOMAIN pending, scores)
               THEN [ret |-> "panic", models |-> g.models, latest |-> g.latest,
                     pending |-> pending]
               ELSE LET final == aggregate_pending(KeysInOrder(DOMAIN pending),
                                                   pending, scores, new_model)
                        new_version_hash ==
                            from_key(pubkey_from_version(final.version))
                    IN [ret |-> "ok",
                        models |-> publish(g.models, new_version_hash, final),
                        latest |-> Some(new_version_hash),
                        pending |-> cleared(pending)]

-----------------------------------------------------------------------------
(* The state machine *)

\* the vectors a caller passes to check_pending: the two deltas of the
\* aggregation example, one vector a float short of MODEL_SIZE and one a
\* float over
UpdateVecs == {<<1, 1>>, <<1, -1>>, <<1>>, <<1, -1, 1>>}

\* what a read past the end of a short vector can find: a float for each
\* missing position; nothing is read past the end of a vector of MODEL_SIZE
\* floats or more
OobVecs(updates) == [(Len(updates) + 1)..MODEL_SIZE -> F32Vals]

\* the version of the latest model; 0 while the store is empty
latest_version ==
    IF latest_version_addr = None THEN 0
    ELSE models[unwrap(latest_version_addr)].version

Registered == DOMAIN trainers_scores

InPool == DOMAIN pending_transactions

Init ==
    /\ trainers_scores = EmptyMap
    /\ pending_transactions = EmptyMap
    /\ models = EmptyMap
    /\ latest_version_addr = None
    /\ result = [op |-> "new", ret |-> "ok", branch |-> "new"]
    /\ owes = {}
    /\ accepted = EmptyMap
    /\ stray = {}
    /\ dup_agg = FALSE
    /\ probe = <<>>

\* mutant: register_trainer also clears the pending pool
RegisterAndClear(a) ==
    /\ trainers_scores' = register_trainer(trainers_scores, a)
    /\ pending_transactions' = EmptyMap
    /\ result' = [op |-> "register_trainer", ret |-> "ok",
                  branch |-> IF a \in DOMAIN trainers_scores
                             THEN "known" ELSE "inserted"]
    /\ UNCHANGED <<models, latest_version_addr,
                   owes, accepted, stray, dup_agg, probe>>

\* a call of register_trainer(a)
Register(a) ==
    /\ trainers_scores' = register_trainer(trainers_scores, a)
    /\ result' = [op |-> "register_trainer", ret |-> "ok",
                  branch |-> IF a \in DOMAIN trainers_scores
                             THEN "known" ELSE "inserted"]
    /\ UNCHANGED <<pending_transactions, models, latest_version_addr,
                   owes, accepted, stray, dup_agg, probe>>

\* a call of check_pending(a, updates)
CheckPendingCall(a, updates, oob) ==
    LET bytes == float_vec_to_byte_slice(updates, oob)
        r == check_pending(pending_transactions, trainers_scores, a, bytes)
    IN /\ pending_transactions' = r.pending
       /\ result' = [op |-> "check_pending", ret |-> r.ret, branch |-> r.branch]
       /\ UNCHANGED <<trainers_scores, models, latest_version_addr, probe>>

\* a call of update_weights()
UpdateWeightsCall ==
    /\ latest_version < MaxVersion
    /\ LET r == update_weights(models, latest_version_addr,
                               pending_transactions, trainers_scores)
       IN /\ models' = r.models
          /\ latest_version_addr' = r.latest
          /\ pending_transactions' = r.pending
          /\ result' = [op |-> "update_weights", ret |-> r.ret, branch |-> r.ret]
    /\ UNCHANGED <<trainers_scores, probe>>

Submit(a, updates, oob) ==
    /\ CheckPendingCall(a, updates, oob)
    /\ UNCHANGED <<owes, accepted, stray, dup_agg>>

Commit ==
    /\ UpdateWeightsCall
    /\ UNCHANGED <<owes, accepted, stray, dup_agg>>

\* the schema alone: its three operations called in any order
Next ==
    \/ \E a \in Addr : Register(a)
    \/ \E a \in Addr, updates \in UpdateVecs :
           \E oob \in OobVecs(updates) : Submit(a, updates, oob)
    \/ Commit

Spec == Init /\ [][Next]_vars

\* a trainer's caller submits, and owes a commit when the submit reports
\* quorum; the history records the delta when the submit is accepted, and the
\* entry as a stray one when the submit panics
CallerSubmit(a, updates, oob) ==
    /\ a \notin owes
    /\ CheckPendingCall(a, updates, oob)
    /\ owes' = IF result'.ret = "true" THEN owes \cup {a} ELSE owes
    /\ accepted' = IF result'.branch \in {"quorum", "below"}
                   THEN Put(accepted, a, float_vec_to_byte_slice(updates, oob))
                   ELSE accepted
    /\ stray' = IF result'.branch = "panic" THEN stray \cup {a} ELSE stray
    /\ UNCHANGED dup_agg

\* the caller that was told quorum is reached commits; the history takes the
\* aggregated entries off the accepted deltas, and records an entry that is
\* aggregated without being an accepted delta awaiting aggregation or a stray
CallerCommit(a) ==
    /\ a \in owes
    /\ UpdateWeightsCall
    /\ owes' = owes \ {a}
    /\ LET aggregated == IF result'.ret = "ok" THEN InPool ELSE {}
       IN /\ dup_agg' = (dup_agg \/ \E b \in aggregated :
                                       b \notin DOMAIN accepted /\ b \notin stray)
          /\ accepted' = [b \in (DOMAIN accepted) \ aggregated |-> accepted[b]]
          /\ stray' = stray \ aggregated

\* the schema driven by callers that commit when their submit reports quorum
NextCaller ==
    \/ \E a \in Addr : Register(a)
    \/ \E a \in Addr, updates \in UpdateVecs :
           \E oob \in OobVecs(updates) : CallerSubmit(a, updates, oob)
    \/ \E a \in Addr : CallerCommit(a)

SpecCaller == Init /\ [][NextCaller]_vars

\* the versions for which keys are derived
KeyVersions == 0..(MaxKeyVersion - 1)

\* a fresh schema and two versions, no key derived yet
InitKey ==
    /\ trainers_scores = EmptyMap
    /\ pending_transactions = EmptyMap
    /\ models = EmptyMap
    /\ latest_version_addr = None
    /\ result = [op |-> "new", ret |-> "ok", branch |-> "new"]
    /\ owes = {}
    /\ accepted = EmptyMap
    /\ stray = {}
    /\ dup_agg = FALSE
    /\ \E v1 \in KeyVersions, v2 \in KeyVersions :
          probe = [v1 |-> v1, v2 |-> v2, pubkey1 |-> None, pubkey2 |-> None,
                   addr1 |-> None, addr2 |-> None]

\* a call of pubkey_from_version for the first version, and of from_key on
\* the buffer it returns
DeriveFirst ==
    /\ probe.pubkey1 = None
    /\ probe' = [probe EXCEPT
                    !.pubkey1 = Some(pubkey_from_version(probe.v1)),
                    !.addr1 = Some(from_key(pubkey_from_version(probe.v1)))]
    /\ UNCHANGED <<trainers_scores, pending_transactions, models,
                   latest_version_addr, result, owes, accepted, stray, dup_agg>>

\* the same two calls for the second version
DeriveSecond ==
    /\ probe.pubkey2 = None
    /\ probe' = [probe EXCEPT
                    !.pubkey2 = Some(pubkey_from_version(probe.v2)),
                    !.addr2 = Some(from_key(pubkey_from_version(probe.v2)))]
    /\ UNCHANGED <<trainers_scores, pending_transactions, models,
                   latest_version_addr, result, owes, accepted, stray, dup_agg>>

NextKey == DeriveFirst \/ DeriveSecond

\* the key derivation alone, called twice on versions of the tested range
SpecKey == InitKey /\ [][NextKey]_vars

-----------------------------------------------------------------------------
(* Definitions used by the properties *)

\* the sum of w[x] over x in S, elements taken in no particular order
RECURSIVE SetSum(_, _)
SetSum(S, w) ==
    IF S = {} THEN 0
    ELSE LET x == CHOOSE y \in S : TRUE IN w[x] + SetSum(S \ {x}, w)

\* TrainerRegistry.weightOf, in units of 1/Scale
weightOf(a) == parse_f32(trainers_scores[a])

\* the registered weight represented in the pool, in units of 1/Scale
PoolRatio == SetSum(InPool, [a \in InPool |-> weightOf(a)])

\* the delta a pool entry holds
deltaOf(a) == byte_slice_to_float_vec(pending_transactions[a])

\* the latest model; the genesis model while the store is empty
latest_or_genesis ==
    IF latest_version_addr = None
    THEN [version |-> 0, size |-> MODEL_SIZE,
          weights |-> [i \in 1..MODEL_SIZE |-> INIT_WEIGHT * Scale]]
    ELSE models[unwrap(latest_version_addr)]

-----------------------------------------------------------------------------
(* C1 *)

\* C1: with n addresses registered, whatever submits and commits came in
\* between, every registered trainer's weight is 1/n and the weights sum to 1.
C1_UniformWeights ==
    LET n == Cardinality(Registered)
    IN n > 0 =>
        /\ \A a \in Registered : trainers_scores[a] = to_string(starter_score(n))
        /\ \A a \in Registered : weightOf(a) * n = Scale
        /\ SetSum(Registered, [a \in Registered |-> weightOf(a)]) = Scale

\* all addresses registered, with a submit and a commit in between
C1_Witness ==
    /\ Cardinality(Registered) = NumAddr
    /\ InPool # {}
    /\ latest_version >= 1

-----------------------------------------------------------------------------
(* C2 *)

\* C2: a submit by an address with no pending entry, every address of the
\* pool being registered, returns true (quorum reached) exactly when the
\* weights the registry holds at this submit, summed over the pool with the
\* new entry in it, reach MAJORITY_RATIO, and false (below quorum) otherwise.
C2_QuorumResult ==
    [][\A a \in Addr, updates \in UpdateVecs : \A oob \in OobVecs(updates) :
          ( /\ Submit(a, updates, oob)
            /\ a \notin InPool
            /\ InPool \cup {a} \subseteq Registered )
          => /\ a \in InPool'
             /\ result'.ret = IF PoolRatio' >= MAJORITY_RATIO
                              THEN "true" ELSE "false"]_vars

\* three trainers of weight 1/3: the second submit has reported quorum
C2_Witness ==
    /\ result.op = "check_pending"
    /\ result.ret = "true"
    /\ Cardinality(Registered) = 3
    /\ \A a \in Registered : weightOf(a) * 3 = Scale
    /\ Cardinality(InPool) = 2

-----------------------------------------------------------------------------
(* C3 *)

\* C3: whenever update_weights publishes a new version, the registered weight
\* represented in the pool it aggregates is at least MAJORITY_RATIO.
C3_PublishOnlyAtQuorum ==
    [][(UpdateWeightsCall /\ result'.ret = "ok")
          => PoolRatio >= MAJORITY_RATIO]_vars

-----------------------------------------------------------------------------
(* C4 *)

\* C4: after a commit that succeeds, the latest model's version is the
\* version that was latest before the call (0, the genesis version, on an
\* empty store) plus 1, and the pending pool is empty.
C4_VersionStepAndEmptyPool ==
    [][(Commit /\ result'.ret = "ok")
          => /\ latest_version_addr' # None
             /\ unwrap(latest_version_addr') \in DOMAIN models'
             /\ latest_version' = latest_version + 1
             /\ pending_transactions' = EmptyMap]_vars

\* a commit on a store that already held models has succeeded
C4_Witness ==
    /\ result.op = "update_weights"
    /\ result.ret = "ok"
    /\ latest_version = 2
    /\ InPool = {}

-----------------------------------------------------------------------------
(* C5 *)

\* C5: the model a commit publishes holds, at every coordinate i, the previous
\* latest model's weight[i] plus the sum, over the entries of the pool at
\* commit time, of delta[i] times the trainer's registry weight at commit
\* time, each entry counted once.
C5_WeightedSum ==
    [][(Commit /\ result'.ret = "ok")
          => LET published == models'[unwrap(latest_version_addr')]
             IN /\ published.size = latest_or_genesis.size
                /\ DOMAIN published.weights = 1..MODEL_SIZE
                /\ \A i \in 1..MODEL_SIZE :
                      published.weights[i] =
                          latest_or_genesis.weights[i]
                          + SetSum(InPool,
                                   [a \in InPool |-> deltaOf(a)[i] * weightOf(a)])
       ]_vars

\* genesis [0,0], two trainers of weight 1/2 with deltas [1,1] and [1,-1]:
\* version 1 holds [1,0]
C5_Witness ==
    /\ result.op = "update_weights"
    /\ result.ret = "ok"
    /\ Cardinality(Registered) = 2
    /\ latest_version = 1
    /\ latest_or_genesis.weights = <<Scale, 0>>

-----------------------------------------------------------------------------
(* C6 *)

\* C6: with callers that commit when their submit reports quorum, no two
\* submits of one round both trigger a commit, every accepted delta that has
\* not been aggregated is still in the pool with the delta that was accepted
\* (no lost update), and no delta is aggregated a second time.
C6_OneCommitPerQuorum ==
    /\ Cardinality(owes) <= 1
    /\ ~dup_agg
    /\ \A a \in DOMAIN accepted :
          a \in InPool /\ pending_transactions[a] = accepted[a]

-----------------------------------------------------------------------------
(* C7 *)

\* C7: a submit for an address that has a pending entry returns false and
\* changes nothing; in any step the entries of the pool keep their deltas, and
\* the pool loses entries only by becoming empty.
C7_DuplicateRejected ==
    [][ /\ \A a \in Addr, updates \in UpdateVecs : \A oob \in OobVecs(updates) :
              (Submit(a, updates, oob) /\ a \in InPool)
              => /\ result'.ret = "false"
                 /\ UNCHANGED <<pending_transactions, trainers_scores, models,
                                latest_version_addr>>
        /\ \A a \in InPool :
              a \in InPool' => pending_transactions'[a] = pending_transactions[a]
        /\ (InPool \subseteq InPool' \/ pending_transactions' = EmptyMap)
      ]_vars

\* a submit for an address with a pending entry has been made
C7_Witness ==
    /\ result.op = "check_pending"
    /\ result.branch = "duplicate"
    /\ InPool # {}

-----------------------------------------------------------------------------
(* C8 *)

\* C8: register_trainer on a registered address leaves the set of registered
\* trainers and every weight as they were, in any state.
C8_RegisterIdempotent ==
    [][\A a \in Addr :
          (Register(a) /\ a \in Registered)
          => /\ Registered' = Registered
             /\ \A b \in Registered : trainers_scores'[b] = trainers_scores[b]
      ]_vars

\* a registered address has been registered again, the pool holding entries
C8_Witness ==
    /\ result.op = "register_trainer"
    /\ result.branch = "known"
    /\ InPool # {}

-----------------------------------------------------------------------------
(* C9 *)

\* C9: a submit for an address that is not registered fails and leaves the
\* pool, the registry and the model store as they were.
C9_UnknownTrainerNoEffect ==
    [][\A a \in Addr, updates \in UpdateVecs : \A oob \in OobVecs(updates) :
          (Submit(a, updates, oob) /\ a \notin Registered)
          => /\ result'.ret = "panic"
             /\ UNCHANGED <<pending_transactions, trainers_scores, models,
                            latest_version_addr>>
      ]_vars

-----------------------------------------------------------------------------
(* C10 *)

\* C10: a commit in which the weight lookup fails for an address of the pool
\* writes no model, leaves the latest pointer as it was and keeps every entry
\* of the pool.
C10_FailedCommitNoEffect ==
    [][(Commit /\ \E a \in InPool : a \notin Registered)
          => /\ result'.ret = "panic"
             /\ UNCHANGED <<models, latest_version_addr, pending_transactions>>
      ]_vars

-----------------------------------------------------------------------------
(* C11 *)

\* the key derived from a version
deriveKey(version) == from_key(pubkey_from_version(version))

\* the genesis model: version 0, MODEL_SIZE weights, each INIT_WEIGHT
GenesisModel ==
    [version |-> 0, size |-> MODEL_SIZE,
     weights |-> [i \in 1..MODEL_SIZE |-> INIT_WEIGHT * Scale]]

\* C11: the read of the latest model at the start of update_weights, on an
\* empty store, leaves exactly one model, the genesis model, stored under the
\* key derived from version 0 and made the latest; on a store that holds
\* models it creates nothing, and no call rewrites the stored version-0 model.
C11_LazyGenesis ==
    [][Commit =>
          LET g == with_genesis(models, latest_version_addr)
          IN /\ models = EmptyMap =>
                   /\ DOMAIN g.models = {deriveKey(0)}
                   /\ g.models[deriveKey(0)] = GenesisModel
                   /\ g.latest = Some(deriveKey(0))
             /\ models # EmptyMap =>
                   /\ g.models = models
                   /\ g.latest = latest_version_addr
                   /\ models'[deriveKey(0)] = models[deriveKey(0)]
             /\ deriveKey(0) \in DOMAIN models'
             /\ models'[deriveKey(0)] = GenesisModel
             /\ {k \in DOMAIN models' : models'[k].version = 0} = {deriveKey(0)}
             /\ (models = EmptyMap /\ result'.ret = "panic")
                   => latest_version_addr' = Some(deriveKey(0))
      ]_vars

\* the genesis model was created by the first commit and is still as created
\* after a commit on the store that held it
C11_Witness ==
    /\ result.op = "update_weights"
    /\ latest_version = 2
    /\ deriveKey(0) \in DOMAIN models
    /\ models[deriveKey(0)] = GenesisModel

-----------------------------------------------------------------------------
(* C12 *)

\* C12: a submit rejected as a duplicate never returns the value that the
\* accepted below-quorum submit before it returned, so the caller can tell
\* the two outcomes apart by the result.
C12_OutcomesDistinguished ==
    [][\A a \in Addr, updates \in UpdateVecs :
          \A oob \in OobVecs(updates) :
             (/\ Submit(a, updates, oob)
              /\ result.branch = "below"
              /\ result'.branch = "duplicate")
             => result'.ret # result.ret
      ]_vars

-----------------------------------------------------------------------------
(* C13 *)

\* C13: a submit by a registered address that is not pending, with a delta
\* of a length other than MODEL_SIZE, fails (it returns neither true nor
\* false) and leaves the pool, the registry and the model store unchanged.
C13_WrongLengthRejected ==
    [][\A a \in Addr, updates \in UpdateVecs :
          \A oob \in OobVecs(updates) :
             (/\ Submit(a, updates, oob)
              /\ a \in Registered
              /\ a \notin InPool
              /\ Len(updates) # MODEL_SIZE)
             => /\ result'.ret \notin {"true", "false"}
                /\ UNCHANGED <<pending_transactions, trainers_scores,
                               models, latest_version_addr>>
      ]_vars

-----------------------------------------------------------------------------
(* C14 *)

\* both keys of the probe have been derived
BothDerived == probe.pubkey1 # None /\ probe.pubkey2 # None

\* C14: the version-to-key derivation is deterministic and injective over
\* the versions below MaxKeyVersion: two calls on the same version give the
\* same 32-byte buffer and the same key, and two calls on different versions
\* give different 32-byte buffers and different keys.
C14_DeriveKeyInjective ==
    BothDerived =>
       /\ Len(unwrap(probe.pubkey1)) = 32
       /\ Len(unwrap(probe.pubkey2)) = 32
       /\ \A i \in 1..32 : unwrap(probe.pubkey1)[i] \in 0..255
       /\ probe.v1 = probe.v2 =>
             /\ probe.pubkey1 = probe.pubkey2
             /\ probe.addr1 = probe.addr2
       /\ probe.v1 # probe.v2 =>
             /\ probe.pubkey1 # probe.pubkey2
             /\ probe.addr1 # probe.addr2

\* keys were derived for two versions that differ only above the low byte
C14_Witness ==
    /\ BothDerived
    /\ probe.v1 = 0
    /\ probe.v2 = 256
    /\ unwrap(probe.pubkey2)[3] = 1

-----------------------------------------------------------------------------
(* C15 *)

\* C15: published models are append-only and immutable: over every call of
\* register_trainer, check_pending and update_weights, each stored model is
\* still stored under the same key with the same version, size and weights,
\* and each model is stored under the key derived from its version (so no
\* call deletes a model or writes again under the key of a stored version).
C15_AppendOnly ==
    [][/\ \A k \in DOMAIN models :
             /\ k \in DOMAIN models'
             /\ models'[k] = models[k]
       /\ \A k \in DOMAIN models' : k = deriveKey(models'[k].version)
      ]_vars

\* two commits have published versions 1 and 2 next to the genesis model,
\* and version 1 carries weights other than the genesis weights
C15_Witness ==
    /\ DOMAIN models = {deriveKey(0), deriveKey(1), deriveKey(2)}
    /\ models[deriveKey(1)].version = 1
    /\ models[deriveKey(1)].weights # GenesisModel.weights
    /\ result.op = "update_weights"
    /\ result.ret = "ok"

-----------------------------------------------------------------------------
(* C16 *)

\* C16: in every reachable state in which the latest pointer is set, the
\* key it holds maps to a stored model.
C16_LatestValid ==
    latest_version_addr # None =>
        unwrap(latest_version_addr) \in DOMAIN models

\* the pointer was moved by a commit to a model published by that commit
C16_Witness ==
    /\ result.op = "update_weights"
    /\ result.ret = "ok"
    /\ latest_version_addr = Some(deriveKey(1))
    /\ deriveKey(1) \in DOMAIN models

-----------------------------------------------------------------------------
(* C17 *)

\* the phase of the round; the pool's ratio counts the registered addresses
Phase ==
    IF InPool = {} THEN "Idle"
    ELSE LET known == InPool \cap Registered
         IN IF SetSum(known, [a \in known |-> weightOf(a)]) >= MAJORITY_RATIO
            THEN "Ready" ELSE "Collecting"

\* a call of register_trainer or check_pending
RegisterOrSubmit ==
    \/ \E a \in Addr : Register(a)
    \/ \E a \in Addr, updates \in UpdateVecs :
          \E oob \in OobVecs(updates) : Submit(a, updates, oob)

\* C17: no call of register_trainer or check_pending takes a round from
\* Ready back to Collecting, and the pool becomes empty only by a commit.
C17_PhaseMonotone ==
    [][/\ (RegisterOrSubmit /\ InPool \subseteq Registered /\ Phase = "Ready")
             => Phase' # "Collecting"
       /\ (InPool # {} /\ InPool' = {}) => Commit
      ]_vars

-----------------------------------------------------------------------------
(* C18 *)

\* C18: a call of register_trainer leaves the pending pool (addresses and
\* deltas), the stored models and the latest pointer as they were, whatever
\* the phase of the round; a call of check_pending or update_weights leaves
\* the registry as it was.
C18_RegisterFrame ==
    [][/\ result'.op = "register_trainer"
             => UNCHANGED <<pending_transactions, models, latest_version_addr>>
       /\ result'.op \in {"check_pending", "update_weights"}
             => UNCHANGED trainers_scores
      ]_vars

\* a new trainer was registered while the pool held entries and the store
\* held a published model
C18_Witness ==
    /\ result.op = "register_trainer"
    /\ result.branch = "inserted"
    /\ InPool # {}
    /\ latest_version >= 1

-----------------------------------------------------------------------------
(* C19 *)

\* the versions of the models a store holds
VersionsOf(store) == {store[k].version : k \in DOMAIN store}

\* the store holds one model for each version 0..k and nothing else, and the
\* pointer references the model of version k
Contiguous(store, latest) ==
    store # EmptyMap =>
        LET k == Cardinality(DOMAIN store) - 1
        IN /\ VersionsOf(store) = 0..k
           /\ latest # None
           /\ unwrap(latest) \in DOMAIN store
           /\ store[unwrap(latest)].version = k

\* C19: in every state with a non-empty store the stored versions are the
\* contiguous range 0..k and the latest pointer references the model of
\* version k; a commit that succeeds extends the range of the store it read
\* (the genesis model included when the store was empty) by the version k+1.
C19_ContiguousVersions ==
    [][/\ Contiguous(models, latest_version_addr)'
       /\ (Commit /\ result'.ret = "ok") =>
             LET g == with_genesis(models, latest_version_addr)
                 k == Cardinality(DOMAIN g.models) - 1
             IN /\ VersionsOf(g.models) = 0..k
                /\ VersionsOf(models') = 0..(k + 1)
                /\ Cardinality(DOMAIN models') = k + 2
                /\ models'[unwrap(latest_version_addr')].version = k + 1
      ]_vars

\* a second commit has extended the versions 0..1 to 0..2
C19_Witness ==
    /\ result.op = "update_weights"
    /\ result.ret = "ok"
    /\ VersionsOf(models) = 0..2
    /\ Cardinality(DOMAIN models) = 3
    /\ latest_version = 2

-----------------------------------------------------------------------------
(* C20 *)

\* C20: with at least one registered trainer, the submit after which every
\* registered trainer has an entry in the pool returns quorum-reached.
C20_RoundReachesQuorum ==
    [][\A a \in Addr, updates \in UpdateVecs :
          \A oob \in OobVecs(updates) :
             (/\ Submit(a, updates, oob)
              /\ a \in Registered
              /\ a \notin InPool
              /\ Registered \subseteq InPool')
             => result'.ret = "true"
      ]_vars

====
